---- MODULE Spec2Model ----
(***************************************************************************)
(* Model of the SHT3x-DIS humidity/temperature driver, class               *)
(* TempHumiditySensor of sht3xdis.py.  One action per public method; the   *)
(* two-wire bus is the environment: every block read returns bytes chosen  *)
(* from a bounded set of frames, valid and corrupted.                      *)
(*                                                                         *)
(* Readings are Python floats rounded to 3 decimals; the model stores them *)
(* as integers in thousandths (85.523 degC is 85523).                      *)
(* Python values: None is <<>>, a returned value x is <<x>>, so that a     *)
(* list [a, b] is << <<a>>, <<b>> >> and [None, None] is << <<>>, <<>> >>. *)
(* Rates are written as the strings "0.5", "1", "2", "4", "10"; "None" is  *)
(* the absent argument.                                                    *)
(*                                                                         *)
(* The two logging loops are modelled step by step, with pc the position   *)
(* inside the loop.  Three variables record effects outside the object:    *)
(* whether the sensor was left acquiring, and which fetched frame each     *)
(* stored reading comes from.                                              *)
(***************************************************************************)
EXTENDS Integers, Sequences, FiniteSets, TLC

VARIABLES
    mode, rate, accuracy, blocking,     \* configuration (lines 87-90)
    Tready, RHready,                    \* ready flags (lines 91-92)
    T_degF, T_degC, RH,                 \* stored readings, in thousandths (lines 93-95)
    proc,                               \* "running", or the exception that ended the process
    op, args, ret,                      \* the last call: method, arguments, return value
    busLog,                             \* bus transactions of the last call, in order
    pc,                                 \* "idle", or the position inside a logging loop
    IDX,                                \* class variable IDX (line 17)
    log_interval,                       \* argument log_interval of start_logging_sql
    loopLog,                            \* what the logging loop did since its last get_sample()
    acquiring,                          \* sensor side: a periodic command arrived, no Break since
    Tsource, RHsource,                  \* which frame the stored reading was decoded from
    delivered                           \* get_sample() returned the pair of the latest frame

config   == <<mode, rate, accuracy, blocking>>
flags    == <<Tready, RHready>>
readings == <<T_degF, T_degC, RH>>
call     == <<op, args, ret, busLog>>
logging  == <<pc, IDX, log_interval, loopLog>>
history  == <<acquiring, Tsource, RHsource, delivered>>
vars     == <<mode, rate, accuracy, blocking, Tready, RHready, T_degF, T_degC, RH,
              proc, op, args, ret, busLog, pc, IDX, log_interval, loopLog,
              acquiring, Tsource, RHsource, delivered>>

----------------------------------------------------------------------------
(* Bounds of the environment: how many distinct payloads the bus can return *)

NumPayloads == 2
NumStatus == 9

Min(a, b) == IF a < b THEN a ELSE b

----------------------------------------------------------------------------
(* Bit operations on naturals *)

RECURSIVE BitAnd(_, _)
BitAnd(a, b) ==
    IF a = 0 \/ b = 0 THEN 0
    ELSE (a % 2) * (b % 2) + 2 * BitAnd(a \div 2, b \div 2)

RECURSIVE BitOr(_, _)
BitOr(a, b) ==
    IF a = 0 THEN b
    ELSE IF b = 0 THEN a
    ELSE (IF a % 2 = 1 \/ b % 2 = 1 THEN 1 ELSE 0) + 2 * BitOr(a \div 2, b \div 2)

RECURSIVE BitXor(_, _)
BitXor(a, b) ==
    IF a = 0 THEN b
    ELSE IF b = 0 THEN a
    ELSE (((a % 2) + (b % 2)) % 2) + 2 * BitXor(a \div 2, b \div 2)

RECURSIVE Pow2(_)
Pow2(n) == IF n = 0 THEN 1 ELSE 2 * Pow2(n - 1)

ShiftLeft(a, n) == a * Pow2(n)
ShiftRight(a, n) == a \div Pow2(n)

----------------------------------------------------------------------------
(* Python values *)

None == <<>>
Some(x) == <<x>>

(* Bus transactions *)
Write(cmd) == [kind |-> "write", bytes |-> cmd]
Read(data) == [kind |-> "read", bytes |-> data]

----------------------------------------------------------------------------
(* Command constants, lines 24-81 *)

SINGLE_SHOT_CSOFF_HIGHR == <<44, 6>>
SINGLE_SHOT_CSOFF_MEDR == <<44, 13>>
SINGLE_SHOT_CSOFF_LOWR == <<44, 16>>
SINGLE_SHOT_CSON_HIGHR == <<36, 0>>
SINGLE_SHOT_CSON_MEDR == <<36, 11>>
SINGLE_SHOT_CSON_LOWR == <<36, 22>>
PERIODIC_05MPS_HIGHR == <<32, 50>>
PERIODIC_05MPS_MEDR == <<32, 36>>
PERIODIC_05MPS_LOWR == <<32, 47>>
PERIODIC_1MPS_HIGHR == <<33, 48>>
PERIODIC_1MPS_MEDR == <<33, 38>>
PERIODIC_1MPS_LOWR == <<33, 45>>
PERIODIC_2MPS_HIGHR == <<34, 54>>
PERIODIC_2MPS_MEDR == <<34, 32>>
PERIODIC_2MPS_LOWR == <<34, 43>>
PERIODIC_4MPS_HIGHR == <<35, 52>>
PERIODIC_4MPS_MEDR == <<35, 34>>
PERIODIC_4MPS_LOWR == <<35, 41>>
PERIODIC_10MPS_HIGHR == <<39, 55>>
PERIODIC_10MPS_MEDR == <<39, 33>>
PERIODIC_10MPS_LOWR == <<39, 42>>
FETCH_DATA == <<224, 0>>
ART_ENABLE == <<43, 50>>
BREAK == <<48, 147>>
RESET == <<48, 162>>
HEATER_ENABLE == <<48, 109>>
HEATER_DISABLE == <<48, 102>>
STATUS == <<243, 45>>
CLEAR_STATUS == <<48, 65>>

(* The attributes of class TempHumiditySensor that hold commands: a lookup  *)
(* of any other name raises AttributeError.                                 *)
ClassAttrs ==
    [ SINGLE_SHOT_CSOFF_HIGHR |-> SINGLE_SHOT_CSOFF_HIGHR,
      SINGLE_SHOT_CSOFF_MEDR |-> SINGLE_SHOT_CSOFF_MEDR,
      SINGLE_SHOT_CSOFF_LOWR |-> SINGLE_SHOT_CSOFF_LOWR,
      SINGLE_SHOT_CSON_HIGHR |-> SINGLE_SHOT_CSON_HIGHR,
      SINGLE_SHOT_CSON_MEDR |-> SINGLE_SHOT_CSON_MEDR,
      SINGLE_SHOT_CSON_LOWR |-> SINGLE_SHOT_CSON_LOWR,
      PERIODIC_05MPS_HIGHR |-> PERIODIC_05MPS_HIGHR,
      PERIODIC_05MPS_MEDR |-> PERIODIC_05MPS_MEDR,
      PERIODIC_05MPS_LOWR |-> PERIODIC_05MPS_LOWR,
      PERIODIC_1MPS_HIGHR |-> PERIODIC_1MPS_HIGHR,
      PERIODIC_1MPS_MEDR |-> PERIODIC_1MPS_MEDR,
      PERIODIC_1MPS_LOWR |-> PERIODIC_1MPS_LOWR,
      PERIODIC_2MPS_HIGHR |-> PERIODIC_2MPS_HIGHR,
      PERIODIC_2MPS_MEDR |-> PERIODIC_2MPS_MEDR,
      PERIODIC_2MPS_LOWR |-> PERIODIC_2MPS_LOWR,
      PERIODIC_4MPS_HIGHR |-> PERIODIC_4MPS_HIGHR,
      PERIODIC_4MPS_MEDR |-> PERIODIC_4MPS_MEDR,
      PERIODIC_4MPS_LOWR |-> PERIODIC_4MPS_LOWR,
      PERIODIC_10MPS_HIGHR |-> PERIODIC_10MPS_HIGHR,
      PERIODIC_10MPS_MEDR |-> PERIODIC_10MPS_MEDR,
      PERIODIC_10MPS_LOWR |-> PERIODIC_10MPS_LOWR,
      FETCH_DATA |-> FETCH_DATA,
      ART_ENABLE |-> ART_ENABLE,
      BREAK |-> BREAK,
      RESET |-> RESET,
      HEATER_ENABLE |-> HEATER_ENABLE,
      HEATER_DISABLE |-> HEATER_DISABLE,
      STATUS |-> STATUS,
      CLEAR_STATUS |-> CLEAR_STATUS ]

HasAttr(name) == name \in DOMAIN ClassAttrs

----------------------------------------------------------------------------
(* Frames the bus can return.  Each channel is 2 payload bytes and 1        *)
(* checksum byte; the checksum bytes are the sensor's, written as literals. *)

ChannelSeq ==
    << <<190, 239, 146>>,       \* 0xBEEF
       <<102, 102, 147>>,       \* 0x6666
       <<0, 0, 129>>,           \* 0x0000
       <<255, 255, 172>>,       \* 0xFFFF
       <<99, 77, 136>> >>       \* 0x634D

(* A channel as it leaves the sensor, and the same channel damaged on the   *)
(* wire: in its checksum byte, or in its payload.                           *)
GoodChannels == {ChannelSeq[i] : i \in 1..Min(NumPayloads, Len(ChannelSeq))}
BadChannels ==
    {<<c[1], c[2], (c[3] + 1) % 256>> : c \in GoodChannels}
        \cup {<<c[1], (c[2] + 16) % 256, c[3]>> : c \in {ChannelSeq[1]}}
Channels == GoodChannels \cup BadChannels
Frames == {c1 \o c2 : c1 \in Channels, c2 \in Channels}

StatusSeq ==
    << <<255, 255, 172>>,       \* 0xFFFF, a verified frame equal to the sentinel
       <<0, 0, 129>>,           \* 0x0000
       <<128, 16, 225>>,        \* 0x8010: alert pending, reset detected
       <<32, 0, 93>>,           \* 0x2000: heater on
       <<8, 0, 182>>,           \* 0x0800: RH tracking alert
       <<4, 0, 2>>,             \* 0x0400: T tracking alert
       <<0, 16, 194>>,          \* 0x0010: reset detected
       <<0, 2, 227>>,           \* 0x0002: last command failed
       <<0, 1, 176>>,           \* 0x0001: write checksum failed
       <<2, 0, 88>>,            \* 0x0200: reserved bit 9
       <<0, 8, 56>> >>          \* 0x0008: reserved bit 3
GoodStatus == {StatusSeq[i] : i \in 1..Min(NumStatus, Len(StatusSeq))}
BadStatus == {<<c[1], c[2], (c[3] + 1) % 256>> : c \in {StatusSeq[2], StatusSeq[3]}}
StatusFrames == GoodStatus \cup BadStatus

(* Arguments a caller can pass *)
ModeArgs == {"single-shot", "periodic", "bogus"}
RateArgs == {"None", "0.5", "1", "2", "4", "10", "3"}
AccArgs == {"low", "med", "high", "bogus"}

----------------------------------------------------------------------------
(* crc_eval, lines 291-300: Crc(8, 0x31, initvalue=0xFF, reflect_input=False, *)
(* xor_output=0x00), most significant bit first                               *)

CRC_WIDTH == 8
CRC_POLY == 49
CRC_INIT == 255
CRC_XOR_OUTPUT == 0

RECURSIVE CrcShift(_, _)
CrcShift(crc, n) ==
    IF n = 0 THEN crc
    ELSE CrcShift(IF crc >= Pow2(CRC_WIDTH - 1)
                  THEN BitXor((crc * 2) % Pow2(CRC_WIDTH), CRC_POLY)
                  ELSE (crc * 2) % Pow2(CRC_WIDTH),
                  n - 1)

RECURSIVE CrcProcess(_, _)
CrcProcess(crc, data) ==
    IF data = <<>> THEN crc
    ELSE CrcProcess(CrcShift(BitXor(crc, Head(data)), 8), Tail(data))

(* Mutant of CrcFinal: the register starts at zero *)
CrcFinal_zeroinit(data) == BitXor(CrcProcess(0, data), CRC_XOR_OUTPUT)

CrcFinal(data) == BitXor(CrcProcess(CRC_INIT, data), CRC_XOR_OUTPUT)

(* The checksums of the payloads the bus can return, computed once *)
BusPayloads == {<<c[1], c[2]>> : c \in Channels \cup StatusFrames}
CrcTable == [p \in BusPayloads |-> CrcFinal(p)]

crc_eval(data, _crc) ==
    (IF data \in BusPayloads THEN CrcTable[data] ELSE CrcFinal(data)) = _crc

----------------------------------------------------------------------------
(* process_data, lines 266-289 *)

FULL_SCALE == 65535

(* round(offset + span * (s / (2**16 - 1)), 3) in thousandths: the nearest    *)
(* integer to offset*1000 + span*1000*s/65535.  2*span*1000*s is even and     *)
(* 65535 is odd, so no value lies on a rounding tie.  The quotient is taken   *)
(* in two parts to stay within 32-bit integers.                               *)
Round3(offset, span, s) ==
    offset * 1000
        + ((span * s) \div FULL_SCALE) * 1000
        + ((2 * ((span * s) % FULL_SCALE) * 1000 + FULL_SCALE) \div (2 * FULL_SCALE))

(* Mutant of RawCode: the two bytes are taken in the other order *)
RawCode_swapped(msb, lsb) == BitOr(ShiftLeft(lsb, 8), msb)

(* data[0] << 8 | data[1]; for the payloads the bus can return, computed once *)
RawTable == [p \in BusPayloads |-> BitOr(ShiftLeft(p[1], 8), p[2])]
RawCode(msb, lsb) ==
    IF <<msb, lsb>> \in BusPayloads THEN RawTable[<<msb, lsb>>]
    ELSE BitOr(ShiftLeft(msb, 8), lsb)
ConvertDegF(s_t) == Round3(-49, 315, s_t)
ConvertDegC(s_t) == Round3(-45, 175, s_t)
ConvertRH(s_rh) == Round3(0, 100, s_rh)

temp_chk(data) == crc_eval(<<data[1], data[2]>>, data[3])
rh_chk(data) == crc_eval(<<data[4], data[5]>>, data[6])

(* Mutant of process_data: converts a channel whose checksum failed *)
process_data_unverified(data, tF, tC, rh) ==
    [ ret1 |-> temp_chk(data),
      ret2 |-> rh_chk(data),
      T_degF |-> ConvertDegF(RawCode(data[1], data[2])),
      T_degC |-> ConvertDegC(RawCode(data[1], data[2])),
      RH |-> ConvertRH(RawCode(data[4], data[5])) ]

process_data(data, tF, tC, rh) ==
    LET t_ok == temp_chk(data)
        rh_ok == rh_chk(data)
        s_t == RawCode(data[1], data[2])
        s_rh == RawCode(data[4], data[5])
    IN  [ ret1 |-> t_ok,
          ret2 |-> rh_ok,
          T_degF |-> IF t_ok THEN ConvertDegF(s_t) ELSE tF,
          T_degC |-> IF t_ok THEN ConvertDegC(s_t) ELSE tC,
          RH |-> IF rh_ok THEN ConvertRH(s_rh) ELSE rh ]

(* Mutant of fetch_bus: the fetch command is never written *)
fetch_bus_nocommand(m, data) == <<Read(data)>>

(* fetch_data, lines 199-212: the bus traffic of one fetch that reads `data` *)
fetch_bus(m, data) ==
    IF m = "single-shot" THEN <<Read(data)>>
    ELSE <<Write(FETCH_DATA), Read(data)>>

(* Mutant of fetch_ready: a fetch sets the flag whatever the checksum said *)
fetch_ready_always(current, verified) == TRUE

(* Mutant of fetch_ready: a fetch only ever sets the flag *)
fetch_ready_sticky(current, verified) == current \/ verified

(* fetch_data, lines 211-212: the flag becomes what process_data returned *)
(* for the channel, whatever it was                                       *)
fetch_ready(current, verified) == verified

----------------------------------------------------------------------------
(* set_mode, lines 97-135 *)

set_mode_accuracy(acc) ==
    IF acc # "med" /\ acc # "low" /\ acc # "high" THEN "med" ELSE acc

(* Mutant of set_mode_rate: a supplied rate is stored without validation *)
set_mode_rate_unchecked(r) == IF r = "None" THEN "1" ELSE r

set_mode_rate(r) ==
    IF r = "None" THEN "1"
    ELSE IF r # "0.5" /\ r # "1" /\ r # "2" /\ r # "4" /\ r # "10" THEN "1"
    ELSE r

(* lines 131-133: in periodic mode blocking is assigned only when the       *)
(* argument is True                                                          *)
set_mode_blocking_periodic(blockingArg, current) ==
    IF blockingArg = TRUE THEN FALSE ELSE current

----------------------------------------------------------------------------
(* init_read, lines 137-191: the two class attributes whose [0] and [1]     *)
(* make the command; <<>> when no branch matches                            *)

init_read_attrs(m, acc, r, blk) ==
    IF m = "single-shot" THEN
        IF acc = "high" THEN
            IF blk = TRUE THEN <<"SINGLE_SHOT_CSON_HIGHR", "SINGLE_SHOT_CSON_HIGHR">>
            ELSE <<"SINGLE_SHOT_CSOFF_HIGHR", "SINGLE_SHOT_CSOFF_HIGHR">>
        ELSE IF acc = "med" THEN
            IF blk = TRUE THEN <<"SINGLE_SHOT_CSON_MEDR", "SINGLE_SHOT_CSON_MEDR">>
            ELSE <<"SINGLE_SHOT_CSOFF_MEDR", "SINGLE_SHOT_CSOFF_MEDR">>
        ELSE IF acc = "low" THEN
            IF blk = TRUE THEN <<"SINGLE_SHOT_CSON_LOWR", "SINGLE_SHOT_CSON_LOWR">>
            ELSE <<"SINGLE_SHOT_CSOFF_LOWR", "SINGLE_SHOT_CSOFF_LOWR">>
        ELSE <<>>
    ELSE IF m = "periodic" THEN
        IF acc = "high" THEN
            IF r = "0.5" THEN <<"PERIODIC_05_MPS_HIGHR", "PERIODIC_05MPS_HIGHR">>
            ELSE IF r = "1" THEN <<"PERIODIC_1MPS_HIGHR", "PERIODIC_1MPS_HIGHR">>
            ELSE IF r = "2" THEN <<"PERIODIC_2MPS_HIGHR", "PERIODIC_2MPS_HIGHR">>
            ELSE IF r = "4" THEN <<"PERIODIC_4MPS_HIGHR", "PERIODIC_4MPS_HIGHR">>
            ELSE IF r = "10" THEN <<"PERIODIC_10MPS_HIGHR", "PERIODIC_10MPS_HIGHR">>
            ELSE <<>>
        ELSE IF acc = "med" THEN
            IF r = "0.5" THEN <<"PERIODIC_05MPS_MEDR", "PERIODIC_05MPS_MEDR">>
            ELSE IF r = "1" THEN <<"PERIODIC_1MPS_MEDR", "PERIODIC_1MPS_MEDR">>
            ELSE IF r = "2" THEN <<"PERIODIC_2MPS_MEDR", "PERIODIC_2MPS_MEDR">>
            ELSE IF r = "4" THEN <<"PERIODIC_4MPS_MEDR", "PERIODIC_4MPS_MEDR">>
            ELSE IF r = "10" THEN <<"PERIODIC_10MPS_MEDR", "PERIODIC_10MPS_MEDR">>
            ELSE <<>>
        ELSE IF acc = "low" THEN
            IF r = "0.5" THEN <<"PERIODIC_05MPS_LOWR", "PERIODIC_05MPS_LOWR">>
            ELSE IF r = "1" THEN <<"PERIODIC_1MPS_LOWR", "PERIODIC_1MPS_LOWR">>
            ELSE IF r = "2" THEN <<"PERIODIC_2MPS_LOWR", "PERIODIC_2MPS_LOWR">>
            ELSE IF r = "4" THEN <<"PERIODIC_4MPS_LOWR", "PERIODIC_4MPS_LOWR">>
            ELSE IF r = "10" THEN <<"PERIODIC_10MPS_LOWR", "PERIODIC_10MPS_LOWR">>
            ELSE <<>>
        ELSE <<>>
    ELSE <<>>

(* The argument expressions are evaluated before write_byte_data is called: *)
(* an undefined attribute raises before anything is written.                *)
init_read_raises(m, acc, r, blk) ==
    \E i \in DOMAIN init_read_attrs(m, acc, r, blk) :
        ~HasAttr(init_read_attrs(m, acc, r, blk)[i])

init_read_command(m, acc, r, blk) ==
    <<ClassAttrs[init_read_attrs(m, acc, r, blk)[1]][1],
      ClassAttrs[init_read_attrs(m, acc, r, blk)[2]][2]>>

(* lines 141-157: in single-shot mode with blocking the call goes on to fetch *)
init_read_fetches(m, acc, blk) ==
    m = "single-shot" /\ acc \in {"high", "med", "low"} /\ blk = TRUE

(* Mutant of stop_read_bus: nothing is written in either mode *)
stop_read_bus_never(m) == <<>>

(* Mutant of stop_read_bus: Break is written in either mode *)
stop_read_bus_always(m) == <<Write(BREAK)>>

(* stop_read, lines 193-197: the bus traffic of the call *)
stop_read_bus(m) == IF m = "periodic" THEN <<Write(BREAK)>> ELSE <<>>

----------------------------------------------------------------------------
(* Status register, lines 306-401 *)

SENTINEL == 65535

get_status_byte(data) ==
    IF crc_eval(<<data[1], data[2]>>, data[3]) = TRUE
    THEN BitOr(ShiftLeft(data[1], 8), data[2])
    ELSE SENTINEL

status_bus(data) == <<Write(STATUS), Read(data)>>

(* Mutant of alert_status_ret: the sentinel is decoded like a status value *)
alert_status_ret_nosentinel(status_byte) ==
    ShiftRight(BitAnd(status_byte, 32768), 15) = 1

alert_status_ret(status_byte) ==
    IF status_byte # SENTINEL
    THEN ShiftRight(BitAnd(status_byte, 32768), 15) = 1
    ELSE FALSE

command_status_ret(status_byte) ==
    IF status_byte # SENTINEL
    THEN ShiftRight(BitAnd(status_byte, 2), 1) = 0
    ELSE FALSE

chksum_status_ret(status_byte) ==
    IF status_byte # SENTINEL
    THEN BitAnd(status_byte, 1) = 0
    ELSE FALSE

(* Mutant of get_heater_status_ret: mask and shift of bit 12 *)
get_heater_status_ret_bit12(status_byte) ==
    IF status_byte # SENTINEL
    THEN ShiftRight(BitAnd(status_byte, 4096), 12) = 1
    ELSE FALSE

get_heater_status_ret(status_byte) ==
    IF status_byte # SENTINEL
    THEN ShiftRight(BitAnd(status_byte, 8192), 13) = 1
    ELSE FALSE

(* get_alert, lines 320-347: masks 0x200, 0x400, 0x08, shifts 10, 11, 4 *)
get_alert_talert(status_byte) == ShiftRight(BitAnd(status_byte, 512), 10)
get_alert_rhalert(status_byte) == ShiftRight(BitAnd(status_byte, 1024), 11)
get_alert_resetalert(status_byte) == ShiftRight(BitAnd(status_byte, 8), 4)

get_alert_ret(status_byte) ==
    IF status_byte # SENTINEL
    THEN << IF get_alert_talert(status_byte) = 1 THEN "temp_alert" ELSE "null",
            IF get_alert_rhalert(status_byte) = 1 THEN "rh_alert" ELSE "null",
            IF get_alert_resetalert(status_byte) = 1 THEN "reset_alert" ELSE "null" >>
    ELSE <<"null", "null", "null">>

get_alert_bus(data) ==
    IF get_status_byte(data) # SENTINEL
    THEN status_bus(data) \o <<Write(CLEAR_STATUS)>>
    ELSE status_bus(data)

----------------------------------------------------------------------------
(* Accessors, lines 214-258 *)

isready_ret(tready, rhready) == tready = TRUE /\ rhready = TRUE

(* Mutant of get_sample_ret: the stored values are returned although the  *)
(* fetch left a channel unverified                                        *)
get_sample_ret_stale(ready, degf, tF, tC, rh) ==
    <<Some(IF degf = TRUE THEN tF ELSE tC), Some(rh)>>

(* get_sample, lines 222-242: the returned list, given whether both flags   *)
(* were found set                                                           *)
get_sample_ret(ready, degf, tF, tC, rh) ==
    IF ready
    THEN <<Some(IF degf = TRUE THEN tF ELSE tC), Some(rh)>>
    ELSE <<None, None>>

get_temp_ret(degf, tF, tC) == IF degf = TRUE THEN tF ELSE tC

(* Mutant of consume_flag: the flag is left as it was *)
consume_flag_kept(flag) == flag

(* lines 247-248 and 256-257: a set flag is cleared *)
consume_flag(flag) == IF flag = TRUE THEN FALSE ELSE flag

----------------------------------------------------------------------------
(* What the last call did on the bus *)

IsFrameRead(e) == e.kind = "read" /\ Len(e.bytes) = 6
IsStatusRead(e) == e.kind = "read" /\ Len(e.bytes) = 3
FrameReads(log) == SelectSeq(log, IsFrameRead)
StatusReads(log) == SelectSeq(log, IsStatusRead)
Fetched(log) == FrameReads(log) # <<>>
FrameOf(log) == FrameReads(log)[1].bytes
StatusFrameOf(log) == StatusReads(log)[1].bytes

Bit(x, k) == (x \div Pow2(k)) % 2 = 1

ValidModes == {"single-shot", "periodic"}
ValidAccuracies == {"low", "med", "high"}
ValidRates == {"0.5", "1", "2", "4", "10"}
StatusQueries == {"alert_status", "command_status", "chksum_status", "get_heater_status"}

----------------------------------------------------------------------------
(* State after __init__, lines 83-95 *)

Init ==
    /\ mode = "single-shot"
    /\ rate = "1"
    /\ accuracy = "med"
    /\ blocking = TRUE
    /\ Tready = FALSE
    /\ RHready = FALSE
    /\ T_degF = 0
    /\ T_degC = 0
    /\ RH = 0
    /\ proc = "running"
    /\ op = "__init__"
    /\ args = <<>>
    /\ ret = None
    /\ busLog = <<>>
    /\ pc = "idle"
    /\ IDX = 0
    /\ log_interval = None
    /\ loopLog = <<>>
    /\ acquiring = FALSE
    /\ Tsource = "none"
    /\ RHsource = "none"
    /\ delivered = FALSE

----------------------------------------------------------------------------
(* What the calls leave behind outside the object *)

(* The commands that start periodic acquisition, lines 35-49 *)
PeriodicCommands ==
    { PERIODIC_05MPS_HIGHR, PERIODIC_05MPS_MEDR, PERIODIC_05MPS_LOWR,
      PERIODIC_1MPS_HIGHR, PERIODIC_1MPS_MEDR, PERIODIC_1MPS_LOWR,
      PERIODIC_2MPS_HIGHR, PERIODIC_2MPS_MEDR, PERIODIC_2MPS_LOWR,
      PERIODIC_4MPS_HIGHR, PERIODIC_4MPS_MEDR, PERIODIC_4MPS_LOWR,
      PERIODIC_10MPS_HIGHR, PERIODIC_10MPS_MEDR, PERIODIC_10MPS_LOWR }

(* Whether a periodic command is outstanding after the writes of `log` *)
RECURSIVE AcquiringAfter(_, _)
AcquiringAfter(a, log) ==
    IF log = <<>> THEN a
    ELSE AcquiringAfter(
            IF Head(log).kind = "write" /\ Head(log).bytes \in PeriodicCommands THEN TRUE
            ELSE IF Head(log).kind = "write" /\ Head(log).bytes = BREAK THEN FALSE
            ELSE a,
            Tail(log))

(* The frame a stored reading comes from, after a fetch that did or did not *)
(* decode its channel: "latest" is the frame of the most recent fetch.      *)
SourceAfter(src, verified) ==
    IF verified THEN "latest"
    ELSE IF src = "latest" THEN "older"
    ELSE src

(* The bookkeeping of a call, from what it did on the bus and returned *)
Track ==
    /\ acquiring' = AcquiringAfter(acquiring, busLog')
    /\ IF Fetched(busLog') THEN
           /\ Tsource' = SourceAfter(Tsource, temp_chk(FrameOf(busLog')))
           /\ RHsource' = SourceAfter(RHsource, rh_chk(FrameOf(busLog')))
           /\ delivered' = (op' = "get_sample" /\ ret'[1] # None)
       ELSE
           /\ UNCHANGED <<Tsource, RHsource>>
           /\ delivered' = (delivered \/ (op' = "get_sample" /\ ret'[1] # None))

----------------------------------------------------------------------------
(* The methods.  A call is possible while the process runs and is not       *)
(* inside a logging loop, which never returns.                              *)

Callable == proc = "running" /\ pc = "idle"

(* set_mode called with arguments drawn from the given sets *)
SetModeArgs(Ms, Rs, As, Bs) ==
    /\ Callable
    /\ \E m \in Ms, r \in Rs, acc \in As, blk \in Bs :
        /\ op' = "set_mode"
        /\ args' = <<m, r, acc, blk>>
        /\ ret' = None
        /\ busLog' = <<>>
        /\ IF m = "single-shot" THEN
               /\ mode' = "single-shot"
               /\ accuracy' = set_mode_accuracy(acc)
               /\ blocking' = blk
               /\ UNCHANGED <<rate, proc>>
           ELSE IF m = "periodic" THEN
               /\ mode' = "periodic"
               /\ rate' = set_mode_rate(r)
               /\ accuracy' = set_mode_accuracy(acc)
               /\ blocking' = set_mode_blocking_periodic(blk, blocking)
               /\ UNCHANGED proc
           ELSE
               /\ proc' = "SystemExit"
               /\ UNCHANGED config
    /\ UNCHANGED <<flags, readings>>
    /\ UNCHANGED logging
    /\ Track

(* Any caller: every mode, rate and accuracy, valid or not *)
SetMode == SetModeArgs(ModeArgs, RateArgs, AccArgs, BOOLEAN)

(* A caller that chooses the mode and blocking and leaves rate and accuracy *)
(* at their defaults (rate=None, acc="med")                                 *)
SetModeDefaults == SetModeArgs({"single-shot", "periodic"}, {"None"}, {"med"}, BOOLEAN)

InitRead ==
    /\ Callable
    /\ op' = "init_read"
    /\ args' = <<>>
    /\ ret' = None
    /\ UNCHANGED config
    /\ IF init_read_raises(mode, accuracy, rate, blocking) THEN
           /\ proc' = "AttributeError"
           /\ busLog' = <<>>
           /\ UNCHANGED <<flags, readings>>
       ELSE IF init_read_attrs(mode, accuracy, rate, blocking) = <<>> THEN
           /\ busLog' = <<>>
           /\ UNCHANGED <<proc, flags, readings>>
       ELSE IF init_read_fetches(mode, accuracy, blocking) THEN
           \E data \in Frames :
               LET r == process_data(data, T_degF, T_degC, RH) IN
               /\ busLog' = <<Write(init_read_command(mode, accuracy, rate, blocking))>>
                               \o fetch_bus(mode, data)
               /\ T_degF' = r.T_degF
               /\ T_degC' = r.T_degC
               /\ RH' = r.RH
               /\ Tready' = fetch_ready(Tready, r.ret1)
               /\ RHready' = fetch_ready(RHready, r.ret2)
               /\ UNCHANGED proc
       ELSE
           /\ busLog' = <<Write(init_read_command(mode, accuracy, rate, blocking))>>
           /\ UNCHANGED <<proc, flags, readings>>
    /\ UNCHANGED logging
    /\ Track

StopRead ==
    /\ Callable
    /\ op' = "stop_read"
    /\ args' = <<>>
    /\ ret' = None
    /\ busLog' = stop_read_bus(mode)
    /\ UNCHANGED <<config, flags, readings, proc>>
    /\ UNCHANGED logging
    /\ Track

FetchData ==
    /\ Callable
    /\ \E data \in Frames :
        LET r == process_data(data, T_degF, T_degC, RH) IN
        /\ op' = "fetch_data"
        /\ args' = <<>>
        /\ ret' = None
        /\ busLog' = fetch_bus(mode, data)
        /\ T_degF' = r.T_degF
        /\ T_degC' = r.T_degC
        /\ RH' = r.RH
        /\ Tready' = fetch_ready(Tready, r.ret1)
        /\ RHready' = fetch_ready(RHready, r.ret2)
    /\ UNCHANGED <<config, proc>>
    /\ UNCHANGED logging
    /\ Track

IsReady ==
    /\ Callable
    /\ op' = "isready"
    /\ args' = <<>>
    /\ ret' = Some(isready_ret(Tready, RHready))
    /\ busLog' = <<>>
    /\ UNCHANGED <<config, flags, readings, proc>>
    /\ UNCHANGED logging
    /\ Track

(* get_sample(degf), lines 220-244, wherever it is called from *)
get_sample_call(degf) ==
    /\ op' = "get_sample"
    /\ args' = <<degf>>
    /\ IF isready_ret(Tready, RHready) THEN
           /\ Tready' = FALSE
           /\ RHready' = FALSE
           /\ ret' = get_sample_ret(TRUE, degf, T_degF, T_degC, RH)
           /\ busLog' = <<>>
           /\ UNCHANGED readings
       ELSE
           \E data \in Frames :
               LET r == process_data(data, T_degF, T_degC, RH)
                   t == fetch_ready(Tready, r.ret1)
                   h == fetch_ready(RHready, r.ret2)
                   ready == isready_ret(t, h)
               IN
               /\ busLog' = fetch_bus(mode, data)
               /\ T_degF' = r.T_degF
               /\ T_degC' = r.T_degC
               /\ RH' = r.RH
               /\ Tready' = IF ready THEN FALSE ELSE t
               /\ RHready' = IF ready THEN FALSE ELSE h
               /\ ret' = get_sample_ret(ready, degf, r.T_degF, r.T_degC, r.RH)
    /\ UNCHANGED <<config, proc>>

GetSample ==
    /\ Callable
    /\ \E degf \in BOOLEAN : get_sample_call(degf)
    /\ UNCHANGED logging
    /\ Track

GetTemp ==
    /\ Callable
    /\ \E degf \in BOOLEAN :
        /\ op' = "get_temp"
        /\ args' = <<degf>>
        /\ ret' = Some(get_temp_ret(degf, T_degF, T_degC))
    /\ Tready' = consume_flag(Tready)
    /\ busLog' = <<>>
    /\ UNCHANGED <<config, RHready, readings, proc>>
    /\ UNCHANGED logging
    /\ Track

GetRh ==
    /\ Callable
    /\ op' = "get_rh"
    /\ args' = <<>>
    /\ ret' = Some(RH)
    /\ RHready' = consume_flag(RHready)
    /\ busLog' = <<>>
    /\ UNCHANGED <<config, Tready, readings, proc>>
    /\ UNCHANGED logging
    /\ Track

ToggleHeater ==
    /\ Callable
    /\ \E state \in BOOLEAN :
        /\ op' = "toggle_heater"
        /\ args' = <<state>>
        /\ busLog' = <<Write(IF state = TRUE THEN HEATER_ENABLE ELSE HEATER_DISABLE)>>
    /\ ret' = None
    /\ UNCHANGED <<config, flags, readings, proc>>
    /\ UNCHANGED logging
    /\ Track

Reset ==
    /\ Callable
    /\ op' = "reset"
    /\ args' = <<>>
    /\ ret' = None
    /\ busLog' = <<Write(RESET)>>
    /\ UNCHANGED <<config, flags, readings, proc>>
    /\ UNCHANGED logging
    /\ Track

AlertStatus ==
    /\ Callable
    /\ \E data \in StatusFrames :
        /\ op' = "alert_status"
        /\ ret' = Some(alert_status_ret(get_status_byte(data)))
        /\ busLog' = status_bus(data)
    /\ args' = <<>>
    /\ UNCHANGED <<config, flags, readings, proc>>
    /\ UNCHANGED logging
    /\ Track

GetAlert ==
    /\ Callable
    /\ \E data \in StatusFrames :
        /\ op' = "get_alert"
        /\ ret' = get_alert_ret(get_status_byte(data))
        /\ busLog' = get_alert_bus(data)
    /\ args' = <<>>
    /\ UNCHANGED <<config, flags, readings, proc>>
    /\ UNCHANGED logging
    /\ Track

CommandStatus ==
    /\ Callable
    /\ \E data \in StatusFrames :
        /\ op' = "command_status"
        /\ ret' = Some(command_status_ret(get_status_byte(data)))
        /\ busLog' = status_bus(data)
    /\ args' = <<>>
    /\ UNCHANGED <<config, flags, readings, proc>>
    /\ UNCHANGED logging
    /\ Track

ChksumStatus ==
    /\ Callable
    /\ \E data \in StatusFrames :
        /\ op' = "chksum_status"
        /\ ret' = Some(chksum_status_ret(get_status_byte(data)))
        /\ busLog' = status_bus(data)
    /\ args' = <<>>
    /\ UNCHANGED <<config, flags, readings, proc>>
    /\ UNCHANGED logging
    /\ Track

GetHeaterStatus ==
    /\ Callable
    /\ \E data \in StatusFrames :
        /\ op' = "get_heater_status"
        /\ ret' = Some(get_heater_status_ret(get_status_byte(data)))
        /\ busLog' = status_bus(data)
    /\ args' = <<>>
    /\ UNCHANGED <<config, flags, readings, proc>>
    /\ UNCHANGED logging
    /\ Track

----------------------------------------------------------------------------
(* The logging loops, lines 403-440.  A loop never returns: the process is  *)
(* inside it until an exception ends it.  The clock and the two sinks, the  *)
(* file at LOGGING_PATH and the database connection, are outside the class: *)
(* the timestamp is the token DTIME, and an open(), write() or query() may  *)
(* raise.  Strings that get concatenated are sequences of pieces.           *)

Digit(d) == <<"0", "1", "2", "3", "4", "5", "6", "7", "8", "9">>[d + 1]

RECURSIVE Digits(_)
Digits(n) == IF n < 10 THEN <<Digit(n)>> ELSE Digits(n \div 10) \o <<Digit(n % 10)>>

(* str() of a float that round(x, 3) returned, m being x in thousandths:    *)
(* the shortest decimal, with at least one digit after the point            *)
StrFloat(m) ==
    LET a == IF m < 0 THEN -m ELSE m
        fp == a % 1000
        d1 == fp \div 100
        d2 == (fp \div 10) % 10
        d3 == fp % 10
    IN  (IF m < 0 THEN <<"-">> ELSE <<>>)
            \o Digits(a \div 1000)
            \o <<".">>
            \o (IF d3 # 0 THEN <<Digit(d1), Digit(d2), Digit(d3)>>
                ELSE IF d2 # 0 THEN <<Digit(d1), Digit(d2)>>
                ELSE <<Digit(d1)>>)

(* Mutant of Str: a missing value is rendered as the empty string *)
Str_blank(v) == IF v = None THEN <<>> ELSE StrFloat(v[1])

(* str(temp), str(rh), lines 417, 436, 438 *)
Str(v) == IF v = None THEN <<"N", "o", "n", "e">> ELSE StrFloat(v[1])

DTIME == "%Y-%m-%d %H:%M:%S"

(* lines 417 and 436 *)
LogLine(temp, rh) == <<DTIME, ",">> \o Str(temp) \o <<",">> \o Str(rh) \o <<"\n">>

(* line 438 *)
QueryStr(temp, rh) ==
    <<"INSERT INTO ", "tb", " (time, temp, rh) VALUES (", "'", DTIME, "'", ",">>
        \o Str(temp) \o <<",">> \o Str(rh) \o <<")">>

(* Intervals a caller passes as log_interval; sensor_mysql_logger.py uses 60 *)
LogIntervals == {1, 60}

(* lines 404-410 and 423-429: set_mode("periodic", rate=1, acc="med") if    *)
(* the mode is not periodic, then init_read() once per process              *)
start_logging_begin(method, interval, first) ==
    LET switch == mode # "periodic"
        m2 == IF switch THEN "periodic" ELSE mode
        r2 == IF switch THEN set_mode_rate("1") ELSE rate
        a2 == IF switch THEN set_mode_accuracy("med") ELSE accuracy
        b2 == IF switch THEN set_mode_blocking_periodic(FALSE, blocking) ELSE blocking
    IN
    /\ op' = method
    /\ ret' = None
    /\ mode' = m2
    /\ rate' = r2
    /\ accuracy' = a2
    /\ blocking' = b2
    /\ loopLog' = <<>>
    /\ IF IDX = 0 THEN
           IF init_read_raises(m2, a2, r2, b2) THEN
               /\ proc' = "AttributeError"
               /\ busLog' = <<>>
               /\ UNCHANGED <<pc, IDX, log_interval>>
           ELSE
               /\ busLog' = IF init_read_attrs(m2, a2, r2, b2) = <<>> THEN <<>>
                             ELSE <<Write(init_read_command(m2, a2, r2, b2))>>
               /\ IDX' = IDX + 1
               /\ pc' = first
               /\ log_interval' = interval
               /\ UNCHANGED proc
       ELSE
           /\ busLog' = <<>>
           /\ pc' = first
           /\ log_interval' = interval
           /\ UNCHANGED <<proc, IDX>>
    /\ UNCHANGED <<flags, readings>>
    /\ Track

(* start_logging_file(), lines 403-410: up to the loop *)
StartLoggingFile ==
    /\ Callable
    /\ args' = <<>>
    /\ start_logging_begin("start_logging_file", None, "file_sample")

(* start_logging_sql(host, port, db, tb, log_interval), lines 420-429: the  *)
(* connection is made first                                                 *)
StartLoggingSql ==
    /\ Callable
    /\ \E interval \in LogIntervals, connected \in BOOLEAN :
        /\ args' = <<"host", "port", "db", "tb", interval>>
        /\ IF connected THEN
               start_logging_begin("start_logging_sql", Some(interval), "sql_sample")
           ELSE
               /\ op' = "start_logging_sql"
               /\ ret' = None
               /\ busLog' = <<>>
               /\ proc' = "MySQLError"
               /\ UNCHANGED <<config, flags, readings, logging>>
               /\ Track

(* lines 412-414 and 431-433: sample = self.get_sample() *)
LogGetSample ==
    /\ proc = "running"
    /\ pc \in {"file_sample", "sql_sample"}
    /\ get_sample_call(TRUE)
    /\ pc' = (IF pc = "file_sample" THEN "file_write" ELSE "sql_write")
    /\ loopLog' = << <<"get_sample">> >>
    /\ UNCHANGED <<IDX, log_interval>>
    /\ Track

(* lines 415-418 (append) and 434-437 (overwrite): the line goes to the     *)
(* file at LOGGING_PATH                                                     *)
LogWrite ==
    /\ proc = "running"
    /\ pc \in {"file_write", "sql_write"}
    /\ \E ok \in BOOLEAN :
        IF ok THEN
            /\ loopLog' = Append(loopLog,
                    <<"write", IF pc = "file_write" THEN "a" ELSE "w", LogLine(ret[1], ret[2])>>)
            /\ pc' = (IF pc = "file_write" THEN "file_sample" ELSE "sql_query")
            /\ UNCHANGED proc
        ELSE
            /\ proc' = "OSError"
            /\ UNCHANGED <<pc, loopLog>>
    /\ UNCHANGED <<config, flags, readings, call, IDX, log_interval, history>>

(* lines 438-439: the INSERT statement is built and sent *)
LogQuery ==
    /\ proc = "running"
    /\ pc = "sql_query"
    /\ \E ok \in BOOLEAN :
        IF ok THEN
            /\ loopLog' = Append(loopLog, <<"query", QueryStr(ret[1], ret[2])>>)
            /\ pc' = "sql_sleep"
            /\ UNCHANGED proc
        ELSE
            /\ proc' = "MySQLError"
            /\ UNCHANGED <<pc, loopLog>>
    /\ UNCHANGED <<config, flags, readings, call, IDX, log_interval, history>>

(* line 440: time.sleep(log_interval) *)
LogSleep ==
    /\ proc = "running"
    /\ pc = "sql_sleep"
    /\ loopLog' = Append(loopLog, <<"sleep", log_interval[1]>>)
    /\ pc' = "sql_sample"
    /\ UNCHANGED <<config, flags, readings, call, proc, IDX, log_interval, history>>

(* The data path: acquisition and the accessors, in either mode *)
Next ==
    \/ SetModeDefaults
    \/ InitRead
    \/ StopRead
    \/ FetchData
    \/ IsReady
    \/ GetSample
    \/ GetTemp
    \/ GetRh
    \/ ToggleHeater
    \/ Reset

Spec == Init /\ [][Next]_vars

(* Configuration: set_mode with any arguments, and the commands that depend *)
(* on the configuration                                                     *)
NextConfig ==
    \/ SetMode
    \/ InitRead
    \/ StopRead

SpecConfig == Init /\ [][NextConfig]_vars

(* The status-register queries, between fetches and control commands.  They *)
(* read nothing of the configuration.                                       *)
NextStatus ==
    \/ AlertStatus
    \/ GetAlert
    \/ CommandStatus
    \/ ChksumStatus
    \/ GetHeaterStatus
    \/ FetchData
    \/ GetTemp
    \/ GetRh
    \/ ToggleHeater
    \/ Reset

SpecStatus == Init /\ [][NextStatus]_vars

(* The two logging loops, entered from either mode, with or without a      *)
(* reading already fetched                                                  *)
NextLog ==
    \/ SetModeDefaults
    \/ FetchData
    \/ StartLoggingFile
    \/ StartLoggingSql
    \/ LogGetSample
    \/ LogWrite
    \/ LogQuery
    \/ LogSleep

SpecLog == Init /\ [][NextLog]_vars

(* The two functions of the class that a caller can apply to bytes of its   *)
(* own: the static crc_eval(data, _crc) and process_data(data).  The bytes  *)
(* are chosen when the object is constructed and the call applies them.     *)
CrcBytes == {0, 1, 77, 102, 128, 190, 239, 255}
CrcInputs == {<<<<a, b>>, e>> : a \in CrcBytes, b \in CrcBytes, e \in 0..255}

AllChannels ==
    {ChannelSeq[i] : i \in DOMAIN ChannelSeq}
        \cup {<<ChannelSeq[i][1], ChannelSeq[i][2], (ChannelSeq[i][3] + 1) % 256>> :
                    i \in DOMAIN ChannelSeq}
ConvInputs == {<<c1 \o c2>> : c1 \in AllChannels, c2 \in AllChannels}

InitPure ==
    /\ mode = "single-shot"
    /\ rate = "1"
    /\ accuracy = "med"
    /\ blocking = TRUE
    /\ Tready = FALSE
    /\ RHready = FALSE
    /\ T_degF = 0
    /\ T_degC = 0
    /\ RH = 0
    /\ proc = "running"
    /\ op = "__init__"
    /\ args \in CrcInputs \cup ConvInputs
    /\ ret = None
    /\ busLog = <<>>
    /\ pc = "idle"
    /\ IDX = 0
    /\ log_interval = None
    /\ loopLog = <<>>
    /\ acquiring = FALSE
    /\ Tsource = "none"
    /\ RHsource = "none"
    /\ delivered = FALSE

(* crc_eval(data, _crc), lines 291-300 *)
CrcEval ==
    /\ Callable
    /\ op = "__init__"
    /\ Len(args) = 2
    /\ op' = "crc_eval"
    /\ ret' = Some(crc_eval(args[1], args[2]))
    /\ busLog' = <<>>
    /\ UNCHANGED <<args, config, flags, readings, proc, logging, history>>

(* process_data(data), lines 266-289, called with bytes that come from no   *)
(* fetch: it stores what verifies and returns the two results; the ready    *)
(* flags are fetch_data's to set.                                           *)
ProcessData ==
    /\ Callable
    /\ op = "__init__"
    /\ Len(args) = 1
    /\ LET r == process_data(args[1], T_degF, T_degC, RH) IN
        /\ op' = "process_data"
        /\ ret' = Some(<<r.ret1, r.ret2>>)
        /\ T_degF' = r.T_degF
        /\ T_degC' = r.T_degC
        /\ RH' = r.RH
        /\ Tsource' = IF r.ret1 THEN "direct" ELSE Tsource
        /\ RHsource' = IF r.ret2 THEN "direct" ELSE RHsource
    /\ busLog' = <<>>
    /\ UNCHANGED <<args, config, flags, proc, logging, acquiring, delivered>>

NextPure ==
    \/ CrcEval
    \/ ProcessData

SpecPure == InitPure /\ [][NextPure]_vars

----------------------------------------------------------------------------
(* C1: every fetch whose frame fails the temperature checksum and passes    *)
(* the humidity checksum stores the frame's humidity and sets RHready,      *)
(* leaves Tready false and T_degC, T_degF as they were before the call; and *)
(* symmetrically when only the humidity checksum fails.                     *)
C1_PartialFrame ==
    [][ Fetched(busLog') =>
          LET d == FrameOf(busLog') IN
          /\ (~temp_chk(d) /\ rh_chk(d)) =>
                /\ RH' = ConvertRH(RawCode(d[4], d[5]))
                /\ RHready' = TRUE
                /\ Tready' = FALSE
                /\ T_degC' = T_degC
                /\ T_degF' = T_degF
          /\ (temp_chk(d) /\ ~rh_chk(d)) =>
                /\ T_degC' = ConvertDegC(RawCode(d[1], d[2]))
                /\ T_degF' = ConvertDegF(RawCode(d[1], d[2]))
                /\ Tready' = TRUE
                /\ RHready' = FALSE
                /\ RH' = RH
      ]_vars

(* A fetch_data() met a frame with a damaged temperature channel while an   *)
(* earlier temperature, different from the frame's payload, was stored.     *)
C1_Witness ==
    /\ op = "fetch_data"
    /\ Fetched(busLog)
    /\ ~temp_chk(FrameOf(busLog))
    /\ rh_chk(FrameOf(busLog))
    /\ RHready = TRUE
    /\ Tready = FALSE
    /\ T_degC # 0
    /\ T_degC # ConvertDegC(RawCode(FrameOf(busLog)[1], FrameOf(busLog)[2]))
    /\ RH = ConvertRH(RawCode(FrameOf(busLog)[4], FrameOf(busLog)[5]))

(* C2: get_sample() fetches at most once.  With both flags set on entry it  *)
(* does no bus traffic, clears both flags and returns the stored pair;      *)
(* otherwise it fetches exactly once and returns the stored pair with both  *)
(* flags cleared when both channels verified, else [None, None].  It never  *)
(* returns a pair with exactly one None.                                    *)
C2_GetSample ==
    [][ op' = "get_sample" =>
          /\ Len(FrameReads(busLog')) <= 1
          /\ (ret'[1] = None) <=> (ret'[2] = None)
          /\ IF Tready = TRUE /\ RHready = TRUE
             THEN /\ busLog' = <<>>
                  /\ Tready' = FALSE
                  /\ RHready' = FALSE
                  /\ ret' = <<Some(IF args'[1] THEN T_degF ELSE T_degC), Some(RH)>>
                  /\ UNCHANGED readings
             ELSE /\ Len(FrameReads(busLog')) = 1
                  /\ IF temp_chk(FrameOf(busLog')) /\ rh_chk(FrameOf(busLog'))
                     THEN /\ ret' = <<Some(IF args'[1] THEN T_degF' ELSE T_degC'), Some(RH')>>
                          /\ Tready' = FALSE
                          /\ RHready' = FALSE
                     ELSE ret' = <<None, None>>
      ]_vars

(* A get_sample() that had to fetch, met a frame with one damaged channel   *)
(* and returned [None, None].                                               *)
C2_Witness ==
    /\ op = "get_sample"
    /\ Fetched(busLog)
    /\ temp_chk(FrameOf(busLog))
    /\ ~rh_chk(FrameOf(busLog))
    /\ ret = <<None, None>>
    /\ Tready = TRUE

(* C3: whenever the mode is periodic after a set_mode() call, blocking is  *)
(* false.                                                                   *)
C3_PeriodicNotBlocking ==
    (proc = "running" /\ mode = "periodic") => blocking = FALSE

(* The command the constants of lines 35-49 define for an accuracy and rate *)
PeriodicCommand(acc, r) ==
    CASE acc = "high" /\ r = "0.5" -> PERIODIC_05MPS_HIGHR
      [] acc = "high" /\ r = "1" -> PERIODIC_1MPS_HIGHR
      [] acc = "high" /\ r = "2" -> PERIODIC_2MPS_HIGHR
      [] acc = "high" /\ r = "4" -> PERIODIC_4MPS_HIGHR
      [] acc = "high" /\ r = "10" -> PERIODIC_10MPS_HIGHR
      [] acc = "med" /\ r = "0.5" -> PERIODIC_05MPS_MEDR
      [] acc = "med" /\ r = "1" -> PERIODIC_1MPS_MEDR
      [] acc = "med" /\ r = "2" -> PERIODIC_2MPS_MEDR
      [] acc = "med" /\ r = "4" -> PERIODIC_4MPS_MEDR
      [] acc = "med" /\ r = "10" -> PERIODIC_10MPS_MEDR
      [] acc = "low" /\ r = "0.5" -> PERIODIC_05MPS_LOWR
      [] acc = "low" /\ r = "1" -> PERIODIC_1MPS_LOWR
      [] acc = "low" /\ r = "2" -> PERIODIC_2MPS_LOWR
      [] acc = "low" /\ r = "4" -> PERIODIC_4MPS_LOWR
      [] acc = "low" /\ r = "10" -> PERIODIC_10MPS_LOWR

(* C4: in periodic mode, for each of the 3 accuracies and 5 rates,          *)
(* init_read() completes normally and sends exactly one bus write, the      *)
(* command defined for that accuracy and rate.                              *)
C4_PeriodicInitRead ==
    (op = "init_read" /\ mode = "periodic"
        /\ accuracy \in ValidAccuracies /\ rate \in ValidRates) =>
        /\ proc = "running"
        /\ busLog = <<Write(PeriodicCommand(accuracy, rate))>>

(* C5: for a status read with a valid checksum get_alert() reports the      *)
(* temperature alert iff bit 10 is set, the humidity alert iff bit 11 is    *)
(* set and the reset alert iff bit 4 is set; on the sentinel it reports     *)
(* none.                                                                    *)
C5_GetAlertBits ==
    op = "get_alert" =>
        LET d == StatusFrameOf(busLog)
            status_byte == d[1] * 256 + d[2]
        IN  IF crc_eval(<<d[1], d[2]>>, d[3]) /\ status_byte # SENTINEL
            THEN /\ (ret[1] = "temp_alert") <=> Bit(status_byte, 10)
                 /\ (ret[2] = "rh_alert") <=> Bit(status_byte, 11)
                 /\ (ret[3] = "reset_alert") <=> Bit(status_byte, 4)
            ELSE ret = <<"null", "null", "null">>

(* C6: whenever get_status_byte() yields the sentinel, alert_status(),      *)
(* command_status(), chksum_status() and get_heater_status() return False   *)
(* and complete normally, changing neither the configuration, the ready     *)
(* flags nor the stored readings.                                           *)
C6_SentinelFalse ==
    [][ (op' \in StatusQueries
            /\ get_status_byte(StatusFrameOf(busLog')) = SENTINEL) =>
          /\ ret' = Some(FALSE)
          /\ proc' = "running"
          /\ UNCHANGED <<config, flags, readings>>
      ]_vars

(* alert_status() read a status frame with the alert bit set and a damaged  *)
(* checksum, after a fetch had set the ready flags.                         *)
C6_Witness ==
    /\ op = "alert_status"
    /\ ~crc_eval(<<StatusFrameOf(busLog)[1], StatusFrameOf(busLog)[2]>>, StatusFrameOf(busLog)[3])
    /\ StatusFrameOf(busLog)[1] >= 128
    /\ ret = Some(FALSE)
    /\ Tready = TRUE
    /\ RH # 0

(* What the four queries return when they decode status value v *)
DecodedBit(query, v) ==
    CASE query = "alert_status" -> Bit(v, 15)
      [] query = "get_heater_status" -> Bit(v, 13)
      [] query = "command_status" -> ~Bit(v, 1)
      [] query = "chksum_status" -> ~Bit(v, 0)

(* C7 as stated: for every status frame whose checksum verifies, each of    *)
(* the four queries returns its bit of that frame.                          *)
C7_DecodesEveryFrame ==
    (op \in StatusQueries
        /\ crc_eval(<<StatusFrameOf(busLog)[1], StatusFrameOf(busLog)[2]>>,
                    StatusFrameOf(busLog)[3])) =>
        ret = Some(DecodedBit(op, StatusFrameOf(busLog)[1] * 256 + StatusFrameOf(busLog)[2]))

(* C7 amended: for every status frame whose checksum verifies and whose     *)
(* value is not 0xFFFF each of the four queries returns its bit of that     *)
(* frame; on a verified 0xFFFF all four return False.                       *)
C7_DecodesFrame ==
    (op \in StatusQueries
        /\ crc_eval(<<StatusFrameOf(busLog)[1], StatusFrameOf(busLog)[2]>>,
                    StatusFrameOf(busLog)[3])) =>
        LET v == StatusFrameOf(busLog)[1] * 256 + StatusFrameOf(busLog)[2] IN
        IF v # 65535
        THEN ret = Some(DecodedBit(op, v))
        ELSE ret = Some(FALSE)

(* get_heater_status() decoded a verified frame with the heater bit set *)
C7_Witness ==
    /\ op = "get_heater_status"
    /\ crc_eval(<<StatusFrameOf(busLog)[1], StatusFrameOf(busLog)[2]>>,
                StatusFrameOf(busLog)[3])
    /\ StatusFrameOf(busLog) = <<32, 0, 93>>
    /\ ret = Some(TRUE)

(* C8: set_mode() with a valid mode never fails on an invalid accuracy or   *)
(* rate: an accuracy outside low, med, high is stored as med, and in        *)
(* periodic mode a rate outside 0.5, 1, 2, 4, 10, or none, is stored as 1.  *)
(* So the stored accuracy and rate are always valid.                        *)
C8_Fallbacks ==
    /\ accuracy \in ValidAccuracies
    /\ rate \in ValidRates
    /\ (op = "set_mode" /\ args[1] \in ValidModes) =>
          /\ proc = "running"
          /\ mode = args[1]
          /\ accuracy = (IF args[3] \in ValidAccuracies THEN args[3] ELSE "med")
          /\ (args[1] = "periodic") =>
                rate = (IF args[2] \in ValidRates THEN args[2] ELSE "1")

(* set_mode("periodic", rate=3, acc="bogus") was called and returned *)
C8_Witness ==
    /\ op = "set_mode"
    /\ args[1] = "periodic"
    /\ args[2] = "3"
    /\ args[3] = "bogus"
    /\ proc = "running"
    /\ rate = "1"
    /\ accuracy = "med"

(* C9: set_mode() with an invalid mode ends the process without having      *)
(* changed mode, accuracy, rate or blocking and without bus traffic, and    *)
(* no other operation ends the process.                                     *)
C9_OnlyFatal ==
    [][ /\ (op' = "set_mode" /\ args'[1] \notin ValidModes) =>
              /\ proc' # "running"
              /\ UNCHANGED config
              /\ busLog' = <<>>
        /\ (proc' # "running") => (op' = "set_mode" /\ args'[1] \notin ValidModes)
      ]_vars

(* C10: get_temp() returns the stored temperature in the unit asked for,    *)
(* whether or not Tready is set, leaves Tready false, does no bus traffic   *)
(* and changes neither RHready, the readings nor the configuration;         *)
(* get_rh() is symmetric.                                                   *)
C10_Accessors ==
    [][ /\ op' = "get_temp" =>
              /\ ret' = Some(IF args'[1] THEN T_degF ELSE T_degC)
              /\ Tready' = FALSE
              /\ busLog' = <<>>
              /\ proc' = "running"
              /\ UNCHANGED <<RHready, readings, config>>
        /\ op' = "get_rh" =>
              /\ ret' = Some(RH)
              /\ RHready' = FALSE
              /\ busLog' = <<>>
              /\ proc' = "running"
              /\ UNCHANGED <<Tready, readings, config>>
      ]_vars

(* get_temp() returned a measured temperature in degC in periodic mode and  *)
(* left the humidity flag set.                                              *)
C10_Witness ==
    /\ op = "get_temp"
    /\ args = <<FALSE>>
    /\ mode = "periodic"
    /\ ret = Some(T_degC)
    /\ T_degC # 0
    /\ Tready = FALSE
    /\ RHready = TRUE

(* C13: stop_read() writes exactly one Break when the mode is periodic and  *)
(* does nothing on the bus when it is single-shot; in both modes it leaves  *)
(* mode, accuracy, rate, blocking, the ready flags and the stored readings  *)
(* as they were.                                                            *)
C13_StopRead ==
    [][ op' = "stop_read" =>
          /\ (mode = "periodic") => busLog' = <<Write(<<48, 147>>)>>
          /\ (mode = "single-shot") => busLog' = <<>>
          /\ proc' = "running"
          /\ UNCHANGED <<config, flags, readings>>
      ]_vars

(* stop_read() wrote Break in periodic mode while a flag was set and a      *)
(* measured temperature was stored.                                         *)
C13_Witness ==
    /\ op = "stop_read"
    /\ mode = "periodic"
    /\ busLog = <<Write(BREAK)>>
    /\ Tready = TRUE
    /\ T_degC # 0

(* The CRC-8 the claims name, as a division of polynomials over GF(2): the  *)
(* message bits, most significant first and the first 8 inverted (initial   *)
(* value 0xFF), followed by 8 zero bits, divided by x^8 + x^5 + x^4 + 1     *)
(* (0x31 with the leading term); the remainder is the checksum.             *)
ByteBits(b) == [i \in 1..8 |-> (b \div Pow2(8 - i)) % 2]

RECURSIVE BitsValue(_)
BitsValue(bits) ==
    IF bits = <<>> THEN 0
    ELSE 2 * BitsValue(SubSeq(bits, 1, Len(bits) - 1)) + bits[Len(bits)]

RECURSIVE PolyRemainder(_, _)
PolyRemainder(bits, poly) ==
    IF Len(bits) < Len(poly) THEN bits
    ELSE IF Head(bits) = 0 THEN PolyRemainder(Tail(bits), poly)
    ELSE PolyRemainder(
            Tail([i \in 1..Len(bits) |->
                    IF i <= Len(poly) THEN (bits[i] + poly[i]) % 2 ELSE bits[i]]),
            poly)

Crc8Of(payload) ==
    BitsValue(PolyRemainder(
        [i \in 1..8 |-> 1 - ByteBits(payload[1])[i]]
            \o ByteBits(payload[2])
            \o <<0, 0, 0, 0, 0, 0, 0, 0>>,
        <<1, 0, 0, 1, 1, 0, 0, 0, 1>>))

(* C14: crc_eval(payload, expected) returns True exactly when expected is   *)
(* the CRC-8 (polynomial 0x31, initial value 0xFF, no reflection, no output *)
(* XOR) of the payload: True on the payload's own checksum, False on every  *)
(* other byte, so also on that checksum with any single bit flipped.        *)
C14_CrcEval ==
    op = "crc_eval" =>
        /\ (ret = Some(TRUE)) <=> (args[2] = Crc8Of(args[1]))
        /\ ret \in {Some(TRUE), Some(FALSE)}

(* crc_eval([0xBE, 0xEF], 0x92) returned True *)
C14_Witness ==
    /\ op = "crc_eval"
    /\ args = << <<190, 239>>, 146 >>
    /\ ret = Some(TRUE)

(* C15: process_data() assembles each 16-bit code as (MSB << 8) | LSB, and  *)
(* a verified code 0 gives -45.0 degC, -49.0 degF and 0.0 %RH, a verified   *)
(* code 65535 gives 130.0 degC, 266.0 degF and 100.0 %RH.                   *)
C15_Boundaries ==
    op = "process_data" =>
        LET d == args[1] IN
        /\ temp_chk(d) =>
              /\ T_degC = ConvertDegC(d[1] * 256 + d[2])
              /\ T_degF = ConvertDegF(d[1] * 256 + d[2])
              /\ (d[1] = 0 /\ d[2] = 0) => (T_degC = -45000 /\ T_degF = -49000)
              /\ (d[1] = 255 /\ d[2] = 255) => (T_degC = 130000 /\ T_degF = 266000)
              /\ (d[1] = 190 /\ d[2] = 239) => (T_degC = 85523 /\ T_degF = 185941)
        /\ rh_chk(d) =>
              /\ RH = ConvertRH(d[4] * 256 + d[5])
              /\ (d[4] = 0 /\ d[5] = 0) => RH = 0
              /\ (d[4] = 255 /\ d[5] = 255) => RH = 100000
              /\ (d[4] = 190 /\ d[5] = 239) => RH = 74585

(* process_data() decoded a frame of temperature code 0 and humidity code   *)
(* 65535, both verified.                                                    *)
C15_Witness ==
    /\ op = "process_data"
    /\ args = << <<0, 0, 129, 255, 255, 172>> >>
    /\ ret = Some(<<TRUE, TRUE>>)
    /\ T_degC = -45000
    /\ T_degF = -49000
    /\ RH = 100000

(* The command the constants of lines 24-33 define for single-shot mode *)
SingleShotCommand(acc, blk) ==
    CASE acc = "high" /\ blk -> SINGLE_SHOT_CSON_HIGHR
      [] acc = "med" /\ blk -> SINGLE_SHOT_CSON_MEDR
      [] acc = "low" /\ blk -> SINGLE_SHOT_CSON_LOWR
      [] acc = "high" /\ ~blk -> SINGLE_SHOT_CSOFF_HIGHR
      [] acc = "med" /\ ~blk -> SINGLE_SHOT_CSOFF_MEDR
      [] acc = "low" /\ ~blk -> SINGLE_SHOT_CSOFF_LOWR

(* C16: init_read() in single-shot mode with blocking writes the            *)
(* clock-stretch-on command of the current accuracy and then fetches in the *)
(* same call: one 6-byte read after the write, the ready flags set from the *)
(* frame's checksums.  In single-shot mode without blocking and in periodic *)
(* mode it writes only the acquisition command, reads nothing and leaves    *)
(* the ready flags and the readings as they were.                           *)
C16_InitRead ==
    [][ op' = "init_read" =>
          IF mode = "single-shot" /\ blocking = TRUE
          THEN /\ Len(busLog') = 2
               /\ busLog'[1] = Write(SingleShotCommand(accuracy, TRUE))
               /\ IsFrameRead(busLog'[2])
               /\ Tready' = temp_chk(busLog'[2].bytes)
               /\ RHready' = rh_chk(busLog'[2].bytes)
          ELSE /\ busLog' = <<Write(IF mode = "single-shot"
                                    THEN SingleShotCommand(accuracy, FALSE)
                                    ELSE PeriodicCommand(accuracy, rate))>>
               /\ UNCHANGED <<flags, readings>>
      ]_vars

IsWrite(e) == e.kind = "write"
IsRead(e) == e.kind = "read"

(* C17: fetch_data() does exactly one bus read per call, of 6 bytes; in     *)
(* periodic mode exactly one command, FetchData, is written before it in    *)
(* the same call, and in single-shot mode nothing is written.               *)
C17_FetchBus ==
    [][ op' = "fetch_data" =>
          /\ Len(SelectSeq(busLog', IsRead)) = 1
          /\ Len(FrameReads(busLog')) = 1
          /\ IsFrameRead(busLog'[Len(busLog')])
          /\ (mode = "periodic") => SelectSeq(busLog', IsWrite) = <<Write(<<224, 0>>)>>
          /\ (mode = "single-shot") => SelectSeq(busLog', IsWrite) = <<>>
          /\ UNCHANGED <<config, proc>>
      ]_vars

(* fetch_data() in periodic mode wrote FetchData and then read a frame *)
C17_Witness ==
    /\ op = "fetch_data"
    /\ mode = "periodic"
    /\ Len(busLog) = 2
    /\ busLog[1] = Write(FETCH_DATA)
    /\ IsFrameRead(busLog[2])

(* C18 as stated: a ready flag goes from false to true only through a fetch *)
(* that decodes its channel, and from true to false only through get_temp   *)
(* (temperature), get_rh (humidity) or get_sample; no other operation, and  *)
(* no fetch_data(), resets a set flag.                                      *)
C18_FlagChanges ==
    [][ /\ (Tready = FALSE /\ Tready' = TRUE) =>
              (Fetched(busLog') /\ temp_chk(FrameOf(busLog')))
        /\ (RHready = FALSE /\ RHready' = TRUE) =>
              (Fetched(busLog') /\ rh_chk(FrameOf(busLog')))
        /\ (Tready = TRUE /\ Tready' = FALSE) => op' \in {"get_temp", "get_sample"}
        /\ (RHready = TRUE /\ RHready' = FALSE) => op' \in {"get_rh", "get_sample"}
      ]_vars

(* C18 amended: a ready flag goes from false to true only through a fetch   *)
(* that decodes its channel; it goes from true to false only through the    *)
(* accessor of its channel, through get_sample() returning the pair, or     *)
(* through a fetch whose frame fails the channel's checksum.  After every   *)
(* fetch_data() each flag equals the checksum result of its channel.        *)
C18_FlagChangesFetch ==
    [][ /\ (Tready = FALSE /\ Tready' = TRUE) =>
              (Fetched(busLog') /\ temp_chk(FrameOf(busLog')))
        /\ (RHready = FALSE /\ RHready' = TRUE) =>
              (Fetched(busLog') /\ rh_chk(FrameOf(busLog')))
        /\ (Tready = TRUE /\ Tready' = FALSE) =>
              \/ op' = "get_temp"
              \/ (op' = "get_sample" /\ ret'[1] # None)
              \/ (Fetched(busLog') /\ ~temp_chk(FrameOf(busLog')))
        /\ (RHready = TRUE /\ RHready' = FALSE) =>
              \/ op' = "get_rh"
              \/ (op' = "get_sample" /\ ret'[1] # None)
              \/ (Fetched(busLog') /\ ~rh_chk(FrameOf(busLog')))
        /\ (op' = "fetch_data") =>
              /\ Tready' = temp_chk(FrameOf(busLog'))
              /\ RHready' = rh_chk(FrameOf(busLog'))
      ]_vars

(* fetch_data() met a frame with a damaged temperature channel while Tready *)
(* was set: the state before has Tready set, the state after has it clear.  *)
C18_Witness ==
    /\ op = "fetch_data"
    /\ ~temp_chk(FrameOf(busLog))
    /\ rh_chk(FrameOf(busLog))
    /\ Tready = FALSE
    /\ RHready = TRUE
    /\ Tsource = "older"

(* C19: whenever both ready flags are set, the stored temperature and the   *)
(* stored humidity were both decoded from the frame of the most recent      *)
(* fetch; so every pair get_sample() returns comes from one frame, and the  *)
(* pair of a frame is returned by at most one get_sample() call.            *)
C19_SameFrame ==
    [][ /\ (Tready' = TRUE /\ RHready' = TRUE) =>
              (Tsource' = "latest" /\ RHsource' = "latest")
        /\ (op' = "get_sample" /\ ret'[1] # None) =>
              /\ ret'[2] # None
              /\ Tsource' = "latest"
              /\ RHsource' = "latest"
              /\ Fetched(busLog') \/ delivered = FALSE
              /\ ret'[2] = Some(RH')
      ]_vars

(* get_sample() in periodic mode returned, without a fetch of its own, the  *)
(* pair of the frame that the most recent fetch had decoded.                *)
C19_Witness ==
    /\ op = "get_sample"
    /\ busLog = <<>>
    /\ ret[1] # None
    /\ ret[2] # None
    /\ delivered = TRUE
    /\ Tsource = "latest"
    /\ RHsource = "latest"
    /\ mode = "periodic"

(* C20 as stated: if a periodic acquisition command was sent to the sensor  *)
(* and no Break since, a call of stop_read() sends Break, so the sensor is  *)
(* not left acquiring when stop_read() returns.                             *)
C20_StopSendsBreak ==
    [][ (op' = "stop_read" /\ acquiring = TRUE) =>
          /\ busLog' = <<Write(BREAK)>>
          /\ acquiring' = FALSE
      ]_vars

(* C20 amended: stop_read() sends Break exactly when the driver's mode is   *)
(* periodic at the call.  If a periodic acquisition command was sent, no    *)
(* Break since, and the mode is still periodic, stop_read() sends Break; if *)
(* set_mode() has made the mode single-shot in between, stop_read() sends   *)
(* nothing and the sensor is left acquiring.                                *)
C20_StopFollowsMode ==
    [][ op' = "stop_read" =>
          /\ (busLog' = <<Write(BREAK)>>) <=> (mode = "periodic")
          /\ (busLog' = <<>>) <=> (mode = "single-shot")
          /\ (acquiring = TRUE /\ mode = "periodic") => acquiring' = FALSE
          /\ (acquiring = TRUE /\ mode = "single-shot") => acquiring' = TRUE
      ]_vars

(* stop_read() returned without a Break while a periodic acquisition was    *)
(* outstanding: the mode had been set to single-shot after init_read().     *)
C20_Witness ==
    /\ op = "stop_read"
    /\ mode = "single-shot"
    /\ busLog = <<>>
    /\ acquiring = TRUE

(* C11: every iteration of a logging loop, the file loop and the SQL loop   *)
(* alike, does in this order one get_sample(), the write of the line        *)
(* timestamp,temperature,humidity for that sample, and one sleep of the     *)
(* configured interval before the next get_sample().  Stated at each        *)
(* get_sample() of the loop but the first: what the loop did since the      *)
(* previous one.                                                            *)
C11_LoopOrder ==
    [][ (pc \in {"file_sample", "sql_sample"} /\ pc' # pc /\ loopLog # <<>>) =>
          LET n == Len(loopLog) IN
          /\ n >= 3
          /\ loopLog[1] = <<"get_sample">>
          /\ loopLog[2][1] = "write"
          /\ loopLog[2][3] = <<DTIME, ",">> \o Str(ret[1]) \o <<",">> \o Str(ret[2]) \o <<"\n">>
          /\ \A i \in 3..(n - 1) : loopLog[i][1] \in {"write", "query"}
          /\ loopLog[n][1] = "sleep"
          /\ log_interval # None
          /\ loopLog[n] = <<"sleep", log_interval[1]>>
      ]_vars

====
